---- MODULE Spec2Model ----
(***************************************************************************)
(* A model of the alert ledger of the stock dashboard                      *)
(* (src/alert_system.py, src/utils.py) and of the crossover detection it   *)
(* calls (src/indicators.py).                                              *)
(*                                                                         *)
(* Time is counted in hours.  A dashboard session owns one AlertSystem     *)
(* object; all sessions share the file stock_data/alerts/alert_log.json.   *)
(***************************************************************************)
EXTENDS Integers, Sequences, FiniteSets, TLC

VARIABLES
    file,       \* stock_data/alerts/alert_log.json
    alert_log,  \* alert_log[s]: AlertSystem.alert_log of session s
    last,       \* what the latest operation did, when it was check_and_send_alerts
    result,     \* what the latest operation returned, when it was another one
    now,        \* datetime.now(), in hours
    stock_data,  \* stock_data/historical/<symbol>.csv, the stored series
    last_update,  \* DataManager.last_update: symbol -> hour of the latest save
    second,       \* datetime.now(), the seconds past the hour
    last_scan_time  \* st.session_state.last_scan_time of each session

vars ==
    <<file, alert_log, last, result, now, stock_data, last_update, second, last_scan_time>>

(***************************************************************************)
(* Bounds of the model.                                                    *)
(***************************************************************************)
\* the clock advances at most this many times
MaxTicks == 2
\* the ledgers the clock is checked on hold at most this many records
MaxRecords == 2
\* the series the indicators are computed on have at most this many bars
MaxBars == 5
\* config.RSI_PERIOD, MFI_PERIOD, VOLUME_MA_SHORT and VOLUME_MA_LONG, the
\* window lengths, scaled down to the series of the model
RSI_PERIOD == 3
MFI_PERIOD == 3
VOLUME_MA_SHORT == 2
VOLUME_MA_LONG == 3

\* the 4-hour bar period (resample('4H'))
BarHours == 4
\* timedelta(days=1) in hours
HoursPerDay == 24

\* the dashboard sessions, each with its own AlertSystem
Sessions == {"s1", "s2"}
\* the symbols scanned
Symbols == {"A.NS"}

\* the clock starts when the bar of hour BarHours is a day old, and the
\* sessions scan two bar periods later
StartHour == HoursPerDay + BarHours
ScanHour == StartHour + BarHours * 2
EndHour == StartHour + BarHours * MaxTicks

(***************************************************************************)
(* Values of a data frame cell: floats.  A float is <<n, d>>: the number   *)
(* n/d in lowest terms when d > 0, +inf and -inf when d = 0, and numpy's   *)
(* not-a-number, with which every comparison is false.                     *)
(***************************************************************************)
NaN == <<0, 0>>

Inf == <<1, 0>>

NegInf == <<0 - 1, 0>>

IsNaN(v) == v = NaN

IsInf(v) == v = Inf \/ v = NegInf

Abs(n) == IF n < 0 THEN 0 - n ELSE n

RECURSIVE GCD(_, _)
GCD(a, b) == IF b = 0 THEN a ELSE GCD(b, a % b)

\* the float n/d, d # 0
Q(n, d) ==
    LET g == GCD(Abs(n), Abs(d))
    IN  IF d > 0 THEN <<n \div g, d \div g>> ELSE <<(0 - n) \div g, (0 - d) \div g>>

\* the float of an integer
F(n) == <<n, 1>>

Sign(v) == IF v[1] > 0 THEN 1 ELSE IF v[1] < 0 THEN 0 - 1 ELSE 0

Neg(a) == <<0 - a[1], a[2]>>

\* a + b: inf + -inf is not a number
Add(a, b) ==
    IF IsNaN(a) \/ IsNaN(b) THEN NaN
    ELSE IF IsInf(a) THEN (IF IsInf(b) /\ b # a THEN NaN ELSE a)
    ELSE IF IsInf(b) THEN b
    ELSE Q(a[1] * b[2] + b[1] * a[2], a[2] * b[2])

Sub(a, b) == Add(a, Neg(b))

\* a * b: inf * 0 is not a number
Mul(a, b) ==
    IF IsNaN(a) \/ IsNaN(b) THEN NaN
    ELSE IF IsInf(a) \/ IsInf(b)
         THEN (IF Sign(a) * Sign(b) = 0 THEN NaN
               ELSE IF Sign(a) * Sign(b) > 0 THEN Inf ELSE NegInf)
    ELSE Q(a[1] * b[1], a[2] * b[2])

\* a / b on float columns: x / 0 is +-inf, 0 / 0 and inf / inf are not a
\* number, x / inf is 0; no exception is raised
Div(a, b) ==
    IF IsNaN(a) \/ IsNaN(b) THEN NaN
    ELSE IF IsInf(b) THEN (IF IsInf(a) THEN NaN ELSE F(0))
    ELSE IF IsInf(a) THEN (IF Sign(b) < 0 THEN Neg(a) ELSE a)
    ELSE IF b[1] = 0
         THEN (IF a[1] = 0 THEN NaN ELSE IF a[1] > 0 THEN Inf ELSE NegInf)
    ELSE Q(a[1] * b[2], a[2] * b[1])

\* a > b on floats
Gt(a, b) ==
    /\ ~IsNaN(a)
    /\ ~IsNaN(b)
    /\ IF a[2] = 0 /\ b[2] = 0 THEN a[1] > b[1] ELSE a[1] * b[2] > b[1] * a[2]

\* a <= b on floats
Le(a, b) == ~IsNaN(a) /\ ~IsNaN(b) /\ ~Gt(a, b)

\* a < b on floats
Lt(a, b) == Gt(b, a)

\* Series.get(col, default): the default only when the column is absent
Get(row, col, default) == IF col \in DOMAIN row THEN row[col] ELSE default

(***************************************************************************)
(* indicators.detect_crossover_signals                                     *)
(***************************************************************************)
detect_macd(latest, previous) ==
    IF Gt(Get(latest, "MACD", F(0)), Get(latest, "MACD_Signal", F(0)))
       /\ Le(Get(previous, "MACD", F(0)), Get(previous, "MACD_Signal", F(0)))
    THEN <<[type |-> "MACD_BULLISH_CROSSOVER",
            value |-> Get(latest, "MACD", F(0)),
            signal_value |-> Get(latest, "MACD_Signal", F(0)),
            timestamp |-> latest.ts]>>
    ELSE <<>>

detect_mfi(latest, previous) ==
    IF Gt(Get(latest, "MFI", F(0)), F(50)) /\ Le(Get(previous, "MFI", F(0)), F(50))
    THEN <<[type |-> "MFI_BULLISH_CROSSOVER",
            value |-> Get(latest, "MFI", F(0)),
            signal_value |-> F(50),
            timestamp |-> latest.ts]>>
    ELSE <<>>

\* the mutant takes a previous RSI that is not a number for one at or below 30
detect_rsi_nan_low(latest, previous) ==
    IF Gt(Get(latest, "RSI", F(0)), F(30)) /\ ~Gt(Get(previous, "RSI", F(0)), F(30))
    THEN <<[type |-> "RSI_OVERSOLD_RECOVERY",
            value |-> Get(latest, "RSI", F(0)),
            signal_value |-> F(30),
            timestamp |-> latest.ts]>>
    ELSE <<>>

detect_rsi(latest, previous) ==
    IF Gt(Get(latest, "RSI", F(0)), F(30)) /\ Le(Get(previous, "RSI", F(0)), F(30))
    THEN <<[type |-> "RSI_OVERSOLD_RECOVERY",
            value |-> Get(latest, "RSI", F(0)),
            signal_value |-> F(30),
            timestamp |-> latest.ts]>>
    ELSE <<>>

detect_crossover_signals(df) ==
    IF Len(df) < 2
    THEN <<>>
    ELSE LET latest == df[Len(df)]
             previous == df[Len(df) - 1]
         IN  detect_macd(latest, previous)
             \o detect_mfi(latest, previous)
             \o detect_rsi(latest, previous)

(***************************************************************************)
(* indicators.calculate_macd, calculate_rsi, calculate_mfi,                *)
(* calculate_volume_indicators, calculate_all_indicators.  A frame is a    *)
(* sequence of rows; a column is the function from the row number to the   *)
(* cell.  Each calculate_* catches its own exceptions and returns the      *)
(* frame as it is then.                                                    *)
(***************************************************************************)
\* the columns of a frame
Columns(df) == IF df = <<>> THEN {} ELSE DOMAIN df[1]

\* df[col]
Col(df, col) == [t \in 1..Len(df) |-> df[t][col]]

\* df[col] = values, a column added or overwritten
SetCol(df, col, values) ==
    [t \in 1..Len(df) |->
       [c \in DOMAIN df[t] \cup {col} |-> IF c = col THEN values[t] ELSE df[t][c]]]

\* series.shift(1)
shift(series, t) == IF t = 1 THEN NaN ELSE series[t - 1]

\* series.diff()
diff(series, t) == Sub(series[t], shift(series, t))

RECURSIVE SumRange(_, _, _)
SumRange(series, a, b) ==
    IF a > b THEN F(0) ELSE Add(series[a], SumRange(series, a + 1, b))

\* series.rolling(window).sum(): not a number until the window is full, and
\* while the window holds a cell that is not a number
rolling_sum(series, window, t) ==
    IF t < window THEN NaN ELSE SumRange(series, t - window + 1, t)

\* series.rolling(window).mean()
rolling_mean(series, window, t) == Div(rolling_sum(series, window, t), F(window))

\* np.where(condition, 1, 0)
where_flag(condition) == IF condition THEN F(1) ELSE F(0)

\* the mutant compares the bar with itself, not with the bar before
macd_crossover_unshifted(macd, signal, t) ==
    where_flag(Gt(macd[t], signal[t]) /\ Le(macd[t], signal[t]))

\* (df['MACD'] > df['MACD_Signal']) &
\* (df['MACD'].shift(1) <= df['MACD_Signal'].shift(1))
macd_crossover(macd, signal, t) ==
    where_flag(Gt(macd[t], signal[t]) /\ Le(shift(macd, t), shift(signal, t)))

\* macd_line and signal_line are the exponential averages of lines 11-18,
\* real-valued functions of Close that are defined on every bar; the model
\* is given the two lines
calculate_macd(df, macd_line, signal_line) ==
    IF "Close" \notin Columns(df)
    THEN df
    ELSE LET histogram == [t \in 1..Len(df) |-> Sub(macd_line[t], signal_line[t])]
             crossover == [t \in 1..Len(df) |-> macd_crossover(macd_line, signal_line, t)]
         IN  SetCol(SetCol(SetCol(SetCol(df,
                 "MACD", macd_line),
                 "MACD_Signal", signal_line),
                 "MACD_Histogram", histogram),
                 "MACD_Crossover", crossover)

\* the mutant reports a window without movement as 50
rsi_value_flat_50(rs) ==
    IF IsNaN(rs) THEN F(50) ELSE Sub(F(100), Div(F(100), Add(F(1), rs)))

\* 100 - (100 / (1 + rs))
rsi_value(rs) == Sub(F(100), Div(F(100), Add(F(1), rs)))

\* delta.where(delta > 0, 0)
gain_of(delta) == IF Gt(delta, F(0)) THEN delta ELSE F(0)

\* -delta.where(delta < 0, 0)
loss_of(delta) == Neg(IF Lt(delta, F(0)) THEN delta ELSE F(0))

avg_gain(close, t) ==
    rolling_mean([k \in DOMAIN close |-> gain_of(diff(close, k))], RSI_PERIOD, t)

avg_loss(close, t) ==
    rolling_mean([k \in DOMAIN close |-> loss_of(diff(close, k))], RSI_PERIOD, t)

calculate_rsi(df) ==
    IF "Close" \notin Columns(df)
    THEN df
    ELSE LET close == Col(df, "Close")
             rsi == [t \in 1..Len(df) |->
                       rsi_value(Div(avg_gain(close, t), avg_loss(close, t)))]
         IN  SetCol(df, "RSI", rsi)

\* (high + low + close) / 3
typical_price(df, t) ==
    Div(Add(Add(df[t].High, df[t].Low), df[t].Close), F(3))

\* typical_price * volume
money_flow(df, t) == Mul(typical_price(df, t), df[t].Volume)

\* the mutant starts the flow columns at 0
unclassified_flow_zero == F(0)

\* pd.Series(index=df.index, dtype=float): the cell of the first bar, which
\* the loop from 1 never assigns
unclassified_flow == NaN

positive_flow(df, t) ==
    IF t = 1 THEN unclassified_flow
    ELSE IF Gt(typical_price(df, t), typical_price(df, t - 1)) THEN money_flow(df, t)
    ELSE F(0)

negative_flow(df, t) ==
    IF t = 1 THEN unclassified_flow
    ELSE IF Gt(typical_price(df, t), typical_price(df, t - 1)) THEN F(0)
    ELSE IF Lt(typical_price(df, t), typical_price(df, t - 1)) THEN money_flow(df, t)
    ELSE F(0)

\* the mutant raises the flag on every bar above the line
mfi_crossover_level(mfi, t) == where_flag(Gt(mfi[t], F(50)))

\* (df['MFI'] > 50) & (df['MFI'].shift(1) <= 50)
mfi_crossover(mfi, t) ==
    where_flag(Gt(mfi[t], F(50)) /\ Le(shift(mfi, t), F(50)))

\* the mutant divides by the ratio, not by 1 + ratio
mfi_value_by_ratio(money_flow_ratio) ==
    Sub(F(100), Div(F(100), money_flow_ratio))

\* 100 - (100 / (1 + money_flow_ratio))
mfi_value(money_flow_ratio) ==
    Sub(F(100), Div(F(100), Add(F(1), money_flow_ratio)))

calculate_mfi(df) ==
    IF ~({"High", "Low", "Close", "Volume"} \subseteq Columns(df))
    THEN df
    ELSE LET positive == [t \in 1..Len(df) |-> positive_flow(df, t)]
             negative == [t \in 1..Len(df) |-> negative_flow(df, t)]
             mfi == [t \in 1..Len(df) |->
                       mfi_value(Div(rolling_sum(positive, MFI_PERIOD, t),
                                     rolling_sum(negative, MFI_PERIOD, t)))]
             crossover == [t \in 1..Len(df) |-> mfi_crossover(mfi, t)]
         IN  SetCol(SetCol(df, "MFI", mfi), "MFI_Crossover", crossover)

calculate_volume_indicators(df) ==
    IF "Volume" \notin Columns(df)
    THEN df
    ELSE LET volume == Col(df, "Volume")
             ma_short == [t \in 1..Len(df) |-> rolling_mean(volume, VOLUME_MA_SHORT, t)]
             ma_long == [t \in 1..Len(df) |-> rolling_mean(volume, VOLUME_MA_LONG, t)]
             surge == [t \in 1..Len(df) |->
                         where_flag(Gt(volume[t], Mul(ma_short[t], Q(3, 2))))]
         IN  SetCol(SetCol(SetCol(df,
                 "Volume_MA_Short", ma_short),
                 "Volume_MA_Long", ma_long),
                 "Volume_Surge", surge)

calculate_all_indicators(df, macd_line, signal_line) ==
    IF df = <<>>
    THEN df
    ELSE calculate_volume_indicators(
             calculate_mfi(calculate_rsi(calculate_macd(df, macd_line, signal_line))))

(***************************************************************************)
(* indicators.get_latest_signals                                           *)
(***************************************************************************)
\* None
None == <<0, 0 - 1>>

\* bool(x): only zero is false; not-a-number is true
Bool(v) == v # F(0)

get_latest_signals(df) ==
    IF Len(df) < 2
    THEN [macd_crossover |-> FALSE,
          mfi_crossover |-> FALSE,
          macd_value |-> None,
          mfi_value |-> None,
          rsi_value |-> None,
          volume_surge |-> FALSE]
    ELSE LET latest == df[Len(df)]
         IN  [macd_crossover |-> Bool(Get(latest, "MACD_Crossover", F(0))),
              mfi_crossover |-> Bool(Get(latest, "MFI_Crossover", F(0))),
              macd_value |-> Get(latest, "MACD", None),
              mfi_value |-> Get(latest, "MFI", None),
              rsi_value |-> Get(latest, "RSI", None),
              volume_surge |-> Bool(Get(latest, "Volume_Surge", F(0))),
              close_price |-> Get(latest, "Close", None),
              timestamp |-> latest.ts]

(***************************************************************************)
(* The frames handed to check_and_send_alerts.  A row is a bar with its    *)
(* indicator columns; each indicator is below or above its threshold.      *)
(***************************************************************************)
Rows(t) ==
    {[ts |-> t, Close |-> F(100 + t), MACD |-> F(m), MACD_Signal |-> F(0),
      MFI |-> F(f), RSI |-> F(r)] : m \in {0 - 1, 1}, f \in {40, 60}, r \in {20, 40}}

LowRow(t) ==
    [ts |-> t, Close |-> F(100 + t), MACD |-> F(0 - 1), MACD_Signal |-> F(0),
     MFI |-> F(40), RSI |-> F(20)]

HighRow(t) ==
    [ts |-> t, Close |-> F(100 + t), MACD |-> F(1), MACD_Signal |-> F(0),
     MFI |-> F(60), RSI |-> F(40)]

\* no bar, one bar, and two bars at t1 < t2: a frame that stays high, and
\* the frames on which MACD, RSI, both or neither cross on the latest bar
FramesAt(t1, t2) ==
    {<<>>, <<HighRow(t1)>>, <<HighRow(t1), HighRow(t2)>>}
    \cup {<<LowRow(t1), r>> : r \in {x \in Rows(t2) : x.MFI = F(40)}}

LedgerFrames == FramesAt(BarHours, BarHours * 2)

(***************************************************************************)
(* Timestamps as text.  isoformat() is fixed-width, most significant       *)
(* field first; sorting the strings compares them digit by digit.          *)
(***************************************************************************)
isoformat(t) == <<t \div 100, (t \div 10) % 10, t % 10>>

fromisoformat(s) == s[1] * 100 + s[2] * 10 + s[3]

\* a < b on the strings
StrLess(a, b) ==
    \E k \in 1..3 : a[k] < b[k] /\ \A j \in 1..(k - 1) : a[j] = b[j]

(***************************************************************************)
(* utils.load_alert_log, utils.save_alert_log.  The file either does not   *)
(* exist or holds a JSON list.  A write either succeeds or raises in       *)
(* open(log_file, 'w') and leaves the file as it was; save_alert_log       *)
(* catches the exception and returns False.                                *)
(***************************************************************************)
NoFile == [exists |-> FALSE, content |-> <<>>]

load_alert_log(f) == IF f.exists THEN f.content ELSE <<>>

SaveOutcomes == {"ok", "failed"}

save_alert_log(f, alerts, outcome) ==
    IF outcome = "ok" THEN [exists |-> TRUE, content |-> alerts] ELSE f

\* save_alert_log's return value
save_ok(outcome) == outcome = "ok"

(***************************************************************************)
(* AlertSystem.check_and_send_alerts                                       *)
(***************************************************************************)
alert_key(symbol, type, latest_timestamp) ==
    symbol \o "_" \o type \o "_" \o ToString(latest_timestamp)

KeysOf(log) == {log[n].key : n \in 1..Len(log)}

\* the mutant keys the record by the hour of the send, not by the bar
alert_record_keyed_by_send(symbol, signal, df, sent_at) ==
    [key |-> alert_key(symbol, signal.type, sent_at),
     symbol |-> symbol,
     signal_type |-> signal.type,
     timestamp |-> isoformat(df[Len(df)].ts),
     sent_at |-> isoformat(sent_at),
     price |-> df[Len(df)].Close,
     signal_value |-> signal.value]

alert_record(symbol, signal, df, sent_at) ==
    LET latest_timestamp == df[Len(df)].ts
    IN  [key |-> alert_key(symbol, signal.type, latest_timestamp),
         symbol |-> symbol,
         signal_type |-> signal.type,
         timestamp |-> isoformat(latest_timestamp),
         sent_at |-> isoformat(sent_at),
         price |-> df[Len(df)].Close,
         signal_value |-> signal.value]

\* the mutant does not look the key up before sending
already_sent_never(log, key) == FALSE

\* any(alert.get('key') == alert_key for alert in self.alert_log)
already_sent(log, key) == \E n \in 1..Len(log) : log[n].key = key

\* the mutant records the alert even when the notifier failed
send_recorded_always(ok) == TRUE

\* if self.send_email_alert(subject, message):
send_recorded(ok) == ok

\* The for loop from signal k on.  ok[k] is what send_email_alert returns
\* for signal k.  The loop ends at the first successful send (return True)
\* or after the last signal (return False).
\*   ret   the return value
\*   log   self.alert_log afterwards
\*   sent  the notifier's invocations, in order: <<key, ok>>
\*   saved whether save_alert_log was called
RECURSIVE alert_loop(_, _, _, _, _, _, _)
alert_loop(log, symbol, df, signals, k, ok, at) ==
    IF k > Len(signals)
    THEN [ret |-> FALSE, log |-> log, sent |-> <<>>, saved |-> FALSE]
    ELSE LET signal == signals[k]
             key == alert_key(symbol, signal.type, df[Len(df)].ts)
         IN  IF already_sent(log, key)
             THEN alert_loop(log, symbol, df, signals, k + 1, ok, at)
             ELSE IF send_recorded(ok[k])
                  THEN [ret |-> TRUE,
                        log |-> Append(log, alert_record(symbol, signal, df, at)),
                        sent |-> <<<<key, ok[k]>>>>,
                        saved |-> TRUE]
                  ELSE LET rest == alert_loop(log, symbol, df, signals, k + 1, ok, at)
                       IN  [rest EXCEPT !.sent = <<<<key, ok[k]>>>> \o rest.sent]

\* the signals of df whose key is not in log
Unseen(log, symbol, df) ==
    LET signals == detect_crossover_signals(df)
    IN  {n \in 1..Len(signals) :
           ~already_sent(log, alert_key(symbol, signals[n].type, df[Len(df)].ts))}

\* no scan to report
NoCall ==
    [called |-> FALSE, s |-> "", symbol |-> "", df |-> <<>>, signals |-> 0,
     unseen |-> 0, ret |-> FALSE, sent |-> <<>>, grew |-> 0, saved |-> "none",
     again |-> FALSE, sent_before |-> 0, grew_before |-> 0]

\* no return value to report; otherwise
\*   op, s, arg  the operation, the session it ran in, its argument
\*   ret         its return value
\*   saved       what save_alert_log did, as in `last`
\*   removed     the records clean_old_alerts did not keep
NoResult == [op |-> "none", s |-> "", arg |-> 0, ret |-> <<>>, saved |-> "none"]

\* One call of check_and_send_alerts(symbol, stock_data) by session s.  The
\* record left in `last`:
\*   s, symbol, df   the caller and the arguments
\*   signals, unseen how many signals were detected, and how many of them had
\*                   no record in alert_log when the call started
\*   ret, sent       the return value and the notifier's invocations
\*   grew            by how many records alert_log grew
\*   saved           what save_alert_log did: "ok", "failed", or "none" when
\*                   it was not called
\*   again           the operation before this one was a call by the same
\*                   session with the same arguments, and it returned True
\*   sent_before, grew_before   that call's invocations and growth
check_and_send(s, symbol, df) ==
    /\ df # <<>> => df[Len(df)].ts <= now
    /\ LET signals == IF df = <<>> THEN <<>> ELSE detect_crossover_signals(df)
           again == /\ last.called
                    /\ last.s = s
                    /\ last.symbol = symbol
                    /\ last.df = df
                    /\ last.ret
       IN  \E ok \in [1..Len(signals) -> BOOLEAN] :
             LET r == alert_loop(alert_log[s], symbol, df, signals, 1, ok, now)
             IN  \E outcome \in IF r.saved THEN SaveOutcomes ELSE {"none"} :
                   /\ alert_log' = [alert_log EXCEPT ![s] = r.log]
                   /\ file' = IF r.saved
                              THEN save_alert_log(file, r.log, outcome)
                              ELSE file
                   /\ last' = [called |-> TRUE,
                               s |-> s,
                               symbol |-> symbol,
                               df |-> df,
                               signals |-> Len(signals),
                               unseen |-> IF df = <<>> THEN 0
                                          ELSE Cardinality(Unseen(alert_log[s], symbol, df)),
                               ret |-> r.ret,
                               sent |-> r.sent,
                               grew |-> Len(r.log) - Len(alert_log[s]),
                               saved |-> outcome,
                               again |-> again,
                               sent_before |-> IF again THEN Len(last.sent) ELSE 0,
                               grew_before |-> IF again THEN last.grew ELSE 0]

\* check_and_send_alerts(symbol, df) called on its own
check_and_send_alerts(s, symbol, df) ==
    /\ check_and_send(s, symbol, df)
    /\ result' = NoResult
    /\ UNCHANGED <<now, stock_data, last_update, second, last_scan_time>>

(***************************************************************************)
(* AlertSystem.__init__, clear_alert_log, get_recent_alerts;               *)
(* utils.clean_old_alerts                                                  *)
(***************************************************************************)
\* a session starts (or restarts): AlertSystem() loads the file
AlertSystem_init(s) ==
    /\ alert_log' = [alert_log EXCEPT ![s] = load_alert_log(file)]
    /\ last' = NoCall
    /\ result' = [NoResult EXCEPT !.op = "AlertSystem", !.s = s]
    /\ UNCHANGED <<file, now, stock_data, last_update, second, last_scan_time>>

clear_alert_log(s) ==
    /\ \E outcome \in SaveOutcomes :
         /\ alert_log' = [alert_log EXCEPT ![s] = <<>>]
         /\ file' = save_alert_log(file, <<>>, outcome)
         /\ result' = [op |-> "clear_alert_log", s |-> s, arg |-> 0,
                       ret |-> save_ok(outcome), saved |-> outcome]
    /\ last' = NoCall
    /\ UNCHANGED <<now, stock_data, last_update, second, last_scan_time>>

\* cutoff_time = datetime.now() - pd.Timedelta(hours=hours)
recent_cutoff(at, hours) == at - hours

\* if alert_time > cutoff_time
is_recent(alert, cutoff_time) == fromisoformat(alert.sent_at) > cutoff_time

\* sorted(recent_alerts, key=lambda x: x['sent_at'], reverse=True): a stable
\* sort on the sent_at strings, the largest first
RECURSIVE insert_desc(_, _)
insert_desc(sorted, alert) ==
    IF sorted = <<>>
    THEN <<alert>>
    ELSE IF StrLess(Head(sorted).sent_at, alert.sent_at)
         THEN <<alert>> \o sorted
         ELSE <<Head(sorted)>> \o insert_desc(Tail(sorted), alert)

RECURSIVE sorted_desc(_)
sorted_desc(alerts) ==
    IF alerts = <<>>
    THEN <<>>
    ELSE insert_desc(sorted_desc(SubSeq(alerts, 1, Len(alerts) - 1)),
                     alerts[Len(alerts)])

recent_alerts(log, at, hours) ==
    LET cutoff_time == recent_cutoff(at, hours)
        keep(alert) == is_recent(alert, cutoff_time)
    IN  IF log = <<>> THEN <<>> ELSE sorted_desc(SelectSeq(log, keep))

get_recent_alerts(s, hours) ==
    /\ result' = [op |-> "get_recent_alerts", s |-> s, arg |-> hours,
                  ret |-> recent_alerts(alert_log[s], now, hours),
                  saved |-> "none"]
    /\ last' = NoCall
    /\ UNCHANGED <<file, alert_log, now, stock_data, last_update, second, last_scan_time>>

\* cutoff_date = datetime.now() - timedelta(days=days)
clean_cutoff(at, days) == at - HoursPerDay * days

\* datetime.fromisoformat(alert.get('timestamp', '1970-01-01')) > cutoff_date
is_kept(alert, cutoff_date) == fromisoformat(alert.timestamp) > cutoff_date

cleaned_alerts(alerts, at, days) ==
    LET cutoff_date == clean_cutoff(at, days)
        keep(alert) == is_kept(alert, cutoff_date)
    IN  SelectSeq(alerts, keep)

clean_old_alerts(days) ==
    LET alerts == load_alert_log(file)
        cleaned == cleaned_alerts(alerts, now, days)
    IN  /\ \E outcome \in SaveOutcomes :
             /\ file' = save_alert_log(file, cleaned, outcome)
             /\ result' = [op |-> "clean_old_alerts", s |-> "", arg |-> days,
                           ret |-> Len(alerts) - Len(cleaned),
                           saved |-> outcome,
                           removed |-> SelectSeq(alerts, LAMBDA alert :
                                         ~is_kept(alert, clean_cutoff(now, days)))]
        /\ last' = NoCall
        /\ UNCHANGED <<alert_log, now, stock_data, last_update, second, last_scan_time>>

\* time passes
Tick ==
    /\ now + BarHours <= EndHour
    /\ now' = now + BarHours
    /\ last' = NoCall
    /\ result' = NoResult
    /\ UNCHANGED <<file, alert_log, stock_data, last_update, second, last_scan_time>>

\* the windows asked for: get_recent_alerts(6), (24); clean_old_alerts(1), (7)
HourArgs == {6, HoursPerDay}
DayArgs == {1, 7}

(***************************************************************************)
(* The ledger shared by two sessions, at hour ScanHour.                    *)
(***************************************************************************)
\* DataManager.__init__: self.last_update = {}
NoUpdate == <<>>

\* st.session_state.last_scan_time = None, in every session
NoScan == [s \in Sessions |-> <<>>]

Init ==
    /\ file = NoFile
    /\ alert_log = [s \in Sessions |-> load_alert_log(NoFile)]
    /\ last = NoCall
    /\ result = NoResult
    /\ now = ScanHour
    /\ last_update = NoUpdate
    /\ second = 0
    /\ last_scan_time = NoScan
    /\ stock_data = <<>>

Next ==
    \/ \E s \in Sessions, symbol \in Symbols, df \in LedgerFrames :
         check_and_send_alerts(s, symbol, df)
    \/ \E s \in Sessions : AlertSystem_init(s)
    \/ \E s \in Sessions : clear_alert_log(s)
    \/ \E days \in DayArgs : clean_old_alerts(days)

Spec == Init /\ [][Next]_vars

(***************************************************************************)
(* The clock: a ledger that scans of earlier hours have left, the same in  *)
(* the file and in every session, queried and pruned while time passes.    *)
(***************************************************************************)
\* the frames of the earlier scans: the latest bar at hour 8 or at hour 12
ClockFrames == FramesAt(BarHours, BarHours * 2) \cup FramesAt(BarHours * 2, BarHours * 3)

\* the records those scans can have appended, sent on the bar's hour or one
\* bar period later
ClockRecords ==
    UNION {{alert_record(symbol, detect_crossover_signals(df)[n], df, at) :
              n \in 1..Len(detect_crossover_signals(df)),
              at \in {df[Len(df)].ts, df[Len(df)].ts + BarHours}} :
           <<symbol, df>> \in Symbols \X {f \in ClockFrames : Len(f) = 2}}

RECURSIVE SeqsUpTo(_, _)
SeqsUpTo(S, n) ==
    IF n = 0
    THEN {<<>>}
    ELSE SeqsUpTo(S, n - 1)
         \cup {Append(q, x) : q \in {p \in SeqsUpTo(S, n - 1) : Len(p) = n - 1}, x \in S}

\* alert_log is appended to in the order of the sends, a symbol's bars only
\* get newer, and no key is recorded twice
ClockLedgers ==
    {log \in SeqsUpTo(ClockRecords, MaxRecords) :
       \A m, n \in 1..Len(log) :
         m < n => /\ log[m].key # log[n].key
                  /\ fromisoformat(log[m].sent_at) <= fromisoformat(log[n].sent_at)
                  /\ fromisoformat(log[m].timestamp) <= fromisoformat(log[n].timestamp)}

InitClock ==
    /\ \E log \in ClockLedgers :
         /\ file = [exists |-> TRUE, content |-> log]
         /\ alert_log = [s \in Sessions |-> load_alert_log(file)]
    /\ last = NoCall
    /\ result = NoResult
    /\ now = StartHour
    /\ last_update = NoUpdate
    /\ second = 0
    /\ last_scan_time = NoScan
    /\ stock_data = <<>>

NextClock ==
    \/ \E s \in Sessions, hours \in HourArgs : get_recent_alerts(s, hours)
    \/ \E days \in DayArgs : clean_old_alerts(days)
    \/ Tick

SpecClock == InitClock /\ [][NextClock]_vars

(***************************************************************************)
(* The indicators: DataManager.get_stock_data_with_indicators computes     *)
(* them on a stored series that has none, and the dashboard reads the      *)
(* signals off the stored series.                                          *)
(***************************************************************************)
\* a bar of the stored series; Open and High are the close
Bar(t, close, low, volume) ==
    [ts |-> BarHours * t, Open |-> F(close), High |-> F(close), Low |-> F(low),
     Close |-> F(close), Volume |-> F(volume)]

\* the series bar by bar, bars[t] being the bars offered at bar t
RECURSIVE SeriesOf(_, _)
SeriesOf(bars, n) ==
    IF n = 0
    THEN {<<>>}
    ELSE {Append(df, bar) : df \in SeriesOf(bars, n - 1), bar \in bars[n]}

\* the frame without a column
DropCol(df, col) ==
    [t \in 1..Len(df) |-> [c \in DOMAIN df[t] \ {col} |-> df[t][c]]]

\* the exponential averages offered to calculate_macd: MACD on or above a
\* signal line at 0
MacdLines(n) == [1..n -> {F(0), F(1)}]

SteadyLines(n) == {line \in MacdLines(n) : \A t \in 1..n : line[t] = line[1]}

SignalLine(n) == [t \in 1..n |-> F(0)]

\* DataManager.get_stock_data_with_indicators(symbol); save_stock_data
\* returns False when the write fails, and nobody reads what it returns
get_stock_data_with_indicators ==
    /\ \E macd_line \in SteadyLines(Len(stock_data)), outcome \in SaveOutcomes :
         LET df == stock_data
             computed == calculate_all_indicators(df, macd_line, SignalLine(Len(df)))
         IN  IF df = <<>> \/ "MACD" \in Columns(df)
             THEN /\ result' = [op |-> "get_stock_data_with_indicators", s |-> "",
                                arg |-> df, ret |-> df, saved |-> "none"]
                  /\ UNCHANGED stock_data
             ELSE /\ result' = [op |-> "get_stock_data_with_indicators", s |-> "",
                                arg |-> df, ret |-> computed, saved |-> outcome]
                  /\ stock_data' = IF save_ok(outcome) THEN computed ELSE stock_data
    /\ last' = NoCall
    /\ UNCHANGED <<file, alert_log, now, last_update, second, last_scan_time>>

\* detect_crossover_signals(df) on the stored series
call_detect_crossover_signals ==
    /\ result' = [op |-> "detect_crossover_signals", s |-> "", arg |-> stock_data,
                  ret |-> detect_crossover_signals(stock_data), saved |-> "none"]
    /\ last' = NoCall
    /\ UNCHANGED <<file, alert_log, now, stock_data, last_update, second, last_scan_time>>

\* get_latest_signals(df) on the stored series
call_get_latest_signals ==
    /\ result' = [op |-> "get_latest_signals", s |-> "", arg |-> stock_data,
                  ret |-> get_latest_signals(stock_data), saved |-> "none"]
    /\ last' = NoCall
    /\ UNCHANGED <<file, alert_log, now, stock_data, last_update, second, last_scan_time>>

NextIndicators ==
    \/ get_stock_data_with_indicators
    \/ call_detect_crossover_signals
    \/ call_get_latest_signals

\* the stored series the indicators are computed on: prices 1 and 2 with
\* volume 1, and bars of volume 5 whose low is far below zero
RawBars(t) ==
    {Bar(t, 1, 1, 1), Bar(t, 2, 2, 1), Bar(t, 1, 1 - 9, 5), Bar(t, 2, 2 - 9, 5)}

OHLCV == {"Open", "High", "Low", "Close", "Volume"}

RawSeries ==
    LET whole == UNION {SeriesOf([t \in 1..MaxBars |-> RawBars(t)], n) : n \in 0..(MaxBars - 1)}
    IN  whole \cup {DropCol(df, col) : df \in {x \in whole : Len(x) \in 1..2}, col \in OHLCV}

InitIndicators ==
    /\ stock_data \in RawSeries
    /\ file = NoFile
    /\ alert_log = [s \in Sessions |-> load_alert_log(file)]
    /\ last = NoCall
    /\ result = NoResult
    /\ now = StartHour
    /\ last_update = NoUpdate
    /\ second = 0
    /\ last_scan_time = NoScan

SpecIndicators == InitIndicators /\ [][NextIndicators]_vars

\* the stored series the signals are read off: computed by
\* calculate_all_indicators from prices 1 and 2, whole or with a column
\* missing, with every course of MACD about its signal line
FlagBars(t) == {Bar(t, 1, 1, 1), Bar(t, 2, 2, 1)}

FlagSeries ==
    LET whole == UNION {SeriesOf([t \in 1..MaxBars |-> FlagBars(t)], n) : n \in 0..MaxBars}
    IN  whole \cup {DropCol(df, col) : df \in whole \ {<<>>}, col \in {"Close", "Volume"}}

InitFlags ==
    /\ \E df \in FlagSeries :
         \E macd_line \in MacdLines(Len(df)) :
           stock_data = calculate_all_indicators(df, macd_line, SignalLine(Len(df)))
    /\ file = NoFile
    /\ alert_log = [s \in Sessions |-> load_alert_log(file)]
    /\ last = NoCall
    /\ result = NoResult
    /\ now = StartHour
    /\ last_update = NoUpdate
    /\ second = 0
    /\ last_scan_time = NoScan

SpecFlags == InitFlags /\ [][NextIndicators]_vars

(***************************************************************************)
(* data_manager.DataManager.download_historical_data and                  *)
(* update_current_data: the hourly bars of the bar source, their           *)
(* aggregation into 4-hour bars and the merge into the stored series.      *)
(***************************************************************************)
\* the 4-hour buckets a fetch reaches back over, the one of now included
FetchBuckets == 2

\* an hourly bar of the bar source; the price moves with the hour
HourBar(h, price) ==
    [ts |-> h,
     Open |-> F(10 * price + (h % BarHours)),
     High |-> F(10 * price + (h % BarHours) + 2),
     Low |-> F(10 * price + (h % BarHours) - 1),
     Close |-> F(10 * price + (h % BarHours) + 1),
     Volume |-> F(1 + (h % BarHours))]

\* the bin of resample('4H') an hour falls in
Bucket(h) == h - (h % BarHours)

RECURSIVE AscendingSeq(_)
AscendingSeq(S) ==
    IF S = {}
    THEN <<>>
    ELSE LET least == CHOOSE x \in S : \A y \in S : x <= y
         IN  <<least>> \o AscendingSeq(S \ {least})

\* the hours of every bucket the bar source has bars for: none, or all that
\* have begun
Coverages == {{}, 0..(BarHours - 1)}

FetchPrices == {1, 2}

\* ticker.history(interval="1h") at hour at: hourly bars, oldest first, of
\* the latest FetchBuckets buckets and of no hour after at
Fetches(at) ==
    LET window == {Bucket(at) - BarHours * k : k \in 0..(FetchBuckets - 1)}
    IN  {LET hours == {h \in {b + o : b \in window, o \in cov} : h <= at}
             order == AscendingSeq(hours)
         IN  [n \in 1..Len(order) |-> HourBar(order[n], price)] :
         cov \in Coverages, price \in FetchPrices}

\* the hourly bars of one bin
SubBars(raw, b) == SelectSeq(raw, LAMBDA bar : Bucket(bar.ts) = b)

max(series) ==
    CHOOSE v \in {series[n] : n \in 1..Len(series)} :
      \A n \in 1..Len(series) : ~Gt(series[n], v)

min(series) ==
    CHOOSE v \in {series[n] : n \in 1..Len(series)} :
      \A n \in 1..Len(series) : ~Lt(series[n], v)

\* .agg({'Open': 'first', 'High': 'max', 'Low': 'min', 'Close': 'last',
\* 'Volume': 'sum'}) of one bin that holds bars
agg(sub) ==
    [ts |-> Bucket(sub[1].ts),
     Open |-> sub[1].Open,
     High |-> max(Col(sub, "High")),
     Low |-> min(Col(sub, "Low")),
     Close |-> sub[Len(sub)].Close,
     Volume |-> SumRange(Col(sub, "Volume"), 1, Len(sub))]

\* df.resample('4H').agg(...).dropna(): a bin without bars aggregates to
\* cells that are not numbers and is dropped; every other bin gives a bar
resample_4h(raw) ==
    LET bins == AscendingSeq({Bucket(raw[n].ts) : n \in 1..Len(raw)})
    IN  [n \in 1..Len(bins) |-> agg(SubBars(raw, bins[n]))]

\* the mutant puts the rows of b first
concat_incoming_first(a, b) ==
    LET rows == b \o a
        columns == UNION {DOMAIN rows[n] : n \in 1..Len(rows)}
    IN  [n \in 1..Len(rows) |->
           [c \in columns |-> IF c \in DOMAIN rows[n] THEN rows[n][c] ELSE NaN]]

\* pd.concat([a, b]): the rows of a then those of b over the columns of
\* both, a cell a row has no value for being not a number
concat(a, b) ==
    LET rows == a \o b
        columns == UNION {DOMAIN rows[n] : n \in 1..Len(rows)}
    IN  [n \in 1..Len(rows) |->
           [c \in columns |-> IF c \in DOMAIN rows[n] THEN rows[n][c] ELSE NaN]]

\* df[~df.index.duplicated(keep='last')]
drop_duplicated(df) ==
    LET kept == {n \in 1..Len(df) : \A m \in (n + 1)..Len(df) : df[m].ts # df[n].ts}
        order == AscendingSeq(kept)
    IN  [k \in 1..Len(order) |-> df[order[k]]]

\* recent_4h[recent_4h.index > last_timestamp]
newer_than(recent_4h, last_timestamp) ==
    SelectSeq(recent_4h, LAMBDA bar : bar.ts > last_timestamp)

\* the mutant appends every incoming bar and drops nothing
merge_appending(df, recent_4h) == concat(df, recent_4h)

\* pd.concat([df, recent_4h[recent_4h.index > last_timestamp]]) without the
\* duplicated timestamps
merge(df, recent_4h) ==
    drop_duplicated(concat(df, newer_than(recent_4h, df[Len(df)].ts)))

\* datetime.now() - last_timestamp.to_pydatetime() < timedelta(hours=4)
is_fresh(at, last_timestamp) == at - last_timestamp < BarHours

\* self.last_update[symbol] = datetime.now()
set_last_update(updates, symbol, at) ==
    [s \in DOMAIN updates \cup {symbol} |-> IF s = symbol THEN at ELSE updates[s]]

\* the index of the stored frame: with the UTC offset the bar source gave its
\* timestamps, or without one
IndexKinds == {"naive", "aware"}

\* DataManager.download_historical_data(symbol)
download_historical_data(symbol) ==
    /\ \E raw \in Fetches(now), outcome \in SaveOutcomes :
         LET df_4h == resample_4h(raw)
             computed == calculate_all_indicators(
                             df_4h, SignalLine(Len(df_4h)), SignalLine(Len(df_4h)))
             success == save_ok(outcome)
         IN  IF raw = <<>>
             THEN /\ result' = [op |-> "download_historical_data", s |-> symbol,
                                arg |-> stock_data, ret |-> FALSE, saved |-> "none",
                                fetched |-> TRUE, raw |-> raw, recent_4h |-> <<>>]
                  /\ UNCHANGED <<stock_data, last_update>>
             ELSE /\ result' = [op |-> "download_historical_data", s |-> symbol,
                                arg |-> stock_data, ret |-> success, saved |-> outcome,
                                fetched |-> TRUE, raw |-> raw, recent_4h |-> df_4h]
                  /\ stock_data' = IF success THEN computed ELSE stock_data
                  /\ last_update' = IF success
                                    THEN set_last_update(last_update, symbol, now)
                                    ELSE last_update
    /\ last' = NoCall
    /\ UNCHANGED <<file, alert_log, now, second, last_scan_time>>

\* DataManager.update_current_data(symbol); subtracting a timestamp that has
\* a UTC offset from datetime.now(), which has none, raises, and the handler
\* returns False
update_current_data(symbol) ==
    /\ \E index \in IndexKinds, raw \in Fetches(now), outcome \in SaveOutcomes :
         LET df == stock_data
             last_timestamp == df[Len(df)].ts
             recent_4h == resample_4h(raw)
             combined_df == merge(df, recent_4h)
             computed == calculate_all_indicators(
                             combined_df, SignalLine(Len(combined_df)),
                             SignalLine(Len(combined_df)))
             success == save_ok(outcome)
             returned(ret, fetched) ==
                 [op |-> "update_current_data", s |-> symbol, arg |-> df,
                  ret |-> ret, saved |-> "none", fetched |-> fetched,
                  raw |-> <<>>, recent_4h |-> <<>>]
         IN  IF df = <<>>
             THEN /\ result' = returned(FALSE, FALSE)
                  /\ UNCHANGED <<stock_data, last_update>>
             ELSE IF index = "aware"
             THEN /\ result' = returned(FALSE, FALSE)
                  /\ UNCHANGED <<stock_data, last_update>>
             ELSE IF is_fresh(now, last_timestamp)
             THEN /\ result' = returned(TRUE, FALSE)
                  /\ UNCHANGED <<stock_data, last_update>>
             ELSE IF raw = <<>>
             THEN /\ result' = returned(FALSE, TRUE)
                  /\ UNCHANGED <<stock_data, last_update>>
             ELSE /\ result' = [op |-> "update_current_data", s |-> symbol,
                                arg |-> df, ret |-> success, saved |-> outcome,
                                fetched |-> TRUE, raw |-> raw,
                                recent_4h |-> recent_4h]
                  /\ stock_data' = IF success THEN computed ELSE stock_data
                  /\ last_update' = IF success
                                    THEN set_last_update(last_update, symbol, now)
                                    ELSE last_update
    /\ last' = NoCall
    /\ UNCHANGED <<file, alert_log, now, second, last_scan_time>>

\* the clock moves on by half a bar
Clock ==
    /\ now + (BarHours \div 2) <= EndHour
    /\ now' = now + (BarHours \div 2)
    /\ last' = NoCall
    /\ result' = NoResult
    /\ UNCHANGED <<file, alert_log, stock_data, last_update, second, last_scan_time>>

NextMerge ==
    \/ \E symbol \in Symbols : download_historical_data(symbol)
    \/ \E symbol \in Symbols : update_current_data(symbol)
    \/ Clock

\* no file of the symbol yet
InitMerge ==
    /\ stock_data = <<>>
    /\ file = NoFile
    /\ alert_log = [s \in Sessions |-> load_alert_log(file)]
    /\ last = NoCall
    /\ result = NoResult
    /\ now = StartHour
    /\ last_update = NoUpdate
    /\ second = 0
    /\ last_scan_time = NoScan

SpecMerge == InitMerge /\ [][NextMerge]_vars

(***************************************************************************)
(* app.scan_for_signals: the scan of a session over the stored series,     *)
(* throttled by st.session_state.last_scan_time.                           *)
(***************************************************************************)
SecondsPerHour == 3600

SecondsPerDay == HoursPerDay * SecondsPerHour

\* (...).seconds < 30
ScanThrottle == 30

\* a wait shorter than the throttle
ShortWait == 10

\* datetime.now(), in seconds
datetime_now == now * SecondsPerHour + second

\* timedelta.seconds: the seconds of the difference without its days
timedelta_seconds(elapsed) == elapsed % SecondsPerDay

\* st.session_state.last_scan_time and
\* (datetime.now() - st.session_state.last_scan_time).seconds < 30
throttled(s) ==
    /\ last_scan_time[s] # <<>>
    /\ timedelta_seconds(datetime_now - last_scan_time[s][1]) < ScanThrottle

\* if signals['macd_crossover'] or signals['mfi_crossover']
scan_gate(signals) == signals.macd_crossover \/ signals.mfi_crossover

\* scan_for_signals() in session s; NIFTY_100_SYMBOLS is the one symbol of
\* Symbols, whose file is stock_data.  In result, ret tells whether the scan
\* was performed.
scan_for_signals(s) ==
    IF throttled(s)
    THEN /\ result' = [op |-> "scan_for_signals", s |-> s, arg |-> stock_data,
                       ret |-> FALSE, saved |-> "none"]
         /\ last' = NoCall
         /\ UNCHANGED <<file, alert_log, now, stock_data, last_update, second,
                        last_scan_time>>
    ELSE /\ IF stock_data # <<>> /\ scan_gate(get_latest_signals(stock_data))
            THEN \E symbol \in Symbols : check_and_send(s, symbol, stock_data)
            ELSE /\ last' = NoCall
                 /\ UNCHANGED <<file, alert_log>>
         /\ last_scan_time' = [last_scan_time EXCEPT ![s] = <<datetime_now>>]
         /\ result' = [op |-> "scan_for_signals", s |-> s, arg |-> stock_data,
                       ret |-> TRUE, saved |-> "none"]
         /\ UNCHANGED <<now, stock_data, last_update, second>>

\* the waits between two scans: shorter than the throttle, the throttle, and
\* a day and a little
Waits == {ShortWait, ScanThrottle, SecondsPerDay + ShortWait}

ScanEnd == StartHour * SecondsPerHour + SecondsPerDay + ScanThrottle

\* time passes, within the first seconds of an hour
Wait(seconds) ==
    /\ datetime_now + seconds <= ScanEnd
    /\ (datetime_now + seconds) % SecondsPerHour <= ScanThrottle
    /\ now' = (datetime_now + seconds) \div SecondsPerHour
    /\ second' = (datetime_now + seconds) % SecondsPerHour
    /\ last' = NoCall
    /\ result' = NoResult
    /\ UNCHANGED <<file, alert_log, stock_data, last_update, last_scan_time>>

NextScan ==
    \/ \E s \in Sessions : scan_for_signals(s)
    \/ \E seconds \in Waits : Wait(seconds)

\* the courses of MACD about its signal line: below or on it, or crossing it
\* on the latest bar
ScanLines(n) ==
    {line \in MacdLines(n) : \A t \in 1..(n - 1) : line[t] = F(0)}

\* the bars of the stored series a scan finds: a fall from 2 to 1, then
\* prices 1 and 2
ScanBars(t) ==
    IF t = 1 THEN {Bar(t, 2, 2, 1)} ELSE IF t = 2 THEN {Bar(t, 1, 1, 1)} ELSE FlagBars(t)

\* the stored series a scan finds: none, or MaxBars - 1 bars with the
\* indicators calculate_all_indicators gives them
ScanSeries ==
    {<<>>} \cup
    {calculate_all_indicators(df, macd_line, SignalLine(Len(df))) :
       df \in SeriesOf([t \in 1..MaxBars |-> ScanBars(t)], MaxBars - 1),
       macd_line \in ScanLines(MaxBars - 1)}

InitScan ==
    /\ stock_data \in ScanSeries
    /\ file = NoFile
    /\ alert_log = [s \in Sessions |-> load_alert_log(file)]
    /\ last = NoCall
    /\ result = NoResult
    /\ now = StartHour
    /\ last_update = NoUpdate
    /\ second = 0
    /\ last_scan_time = NoScan

SpecScan == InitScan /\ [][NextScan]_vars

(***************************************************************************)
(* The claims about the ledger, checked under Spec.                        *)
(***************************************************************************)
\* the keys the notifier was invoked for, and those it accepted
SentKeys(call) == {call.sent[n][1] : n \in 1..Len(call.sent)}

DeliveredKeys(call) ==
    {call.sent[n][1] : n \in {m \in 1..Len(call.sent) : call.sent[m][2]}}

AllSendsFailed(call) == \A n \in 1..Len(call.sent) : ~call.sent[n][2]

AllSendsSucceeded(call) == \A n \in 1..Len(call.sent) : call.sent[n][2]

Persisted == {load_alert_log(file)[n] : n \in 1..Len(load_alert_log(file))}

\* C1: in every session's alert_log no two records have the same dedup key,
\* nor the same (symbol, signal type, bar timestamp).
C1_NoDuplicateKeys ==
    \A s \in Sessions :
      \A m, n \in 1..Len(alert_log[s]) :
        m # n =>
          /\ alert_log[s][m].key # alert_log[s][n].key
          /\ <<alert_log[s][m].symbol, alert_log[s][m].signal_type,
               alert_log[s][m].timestamp>>
             # <<alert_log[s][n].symbol, alert_log[s][n].signal_type,
                 alert_log[s][n].timestamp>>

\* a scan has just met a signal whose key its session's two-record ledger holds
C1_Witness ==
    /\ last.called
    /\ last.unseen < last.signals
    /\ Len(alert_log[last.s]) = 2

\* C2: a scan of a one-signal series whose send succeeds returns True after
\* one notifier invocation and one appended record; the same scan repeated
\* at once by the same session returns False, invokes the notifier for
\* nothing and writes nothing, so that the two scans together invoked the
\* notifier once and appended one record.
C2_ScanIdempotent ==
    [][/\ (last'.called /\ last'.signals = 1 /\ last'.unseen = 1
           /\ last'.sent # <<>> /\ AllSendsSucceeded(last'))
          => (last'.ret /\ Len(last'.sent) = 1 /\ last'.grew = 1)
       /\ (last'.called /\ last'.again /\ last'.signals = 1)
          => /\ ~last'.ret
             /\ last'.sent = <<>>
             /\ last'.saved = "none"
             /\ file' = file
             /\ alert_log' = alert_log
             /\ last'.sent_before + Len(last'.sent) = 1
             /\ last'.grew_before + last'.grew = 1]_vars

\* the second of two scans of the same one-signal series has returned
C2_Witness == last.called /\ last.again /\ last.signals = 1 /\ ~last.ret

\* C3: a scan in which every send failed returns False, leaves alert_log
\* and the file as they were, and the keys it tried are still not in
\* alert_log.
C3_FailedSendRecordsNothing ==
    [][(last'.called /\ last'.sent # <<>> /\ AllSendsFailed(last'))
       => /\ ~last'.ret
          /\ last'.saved = "none"
          /\ alert_log' = alert_log
          /\ file' = file
          /\ SentKeys(last') \cap KeysOf(alert_log'[last'.s]) = {}]_vars

\* a scan has tried two signals and both sends failed
C3_Witness == last.called /\ Len(last.sent) = 2 /\ AllSendsFailed(last)

\* C4: once a record with a key is in the persisted ledger, no scan invokes
\* the notifier for that key again.  (That a key whose send keeps being
\* retried is recorded once a send succeeds is not what fails.)
C4_NeverSentAgainOnceRecorded ==
    [][last'.called
       => SentKeys(last') \cap KeysOf(load_alert_log(file)) = {}]_vars

\* C5: two scans by two sessions, one right after the other, never both
\* deliver the same key.
C5_AtMostOneDispatcher ==
    [][(last.called /\ last'.called /\ last'.s # last.s)
       => DeliveredKeys(last) \cap DeliveredKeys(last') = {}]_vars

\* C6: when a scan returns True, the record of the key it delivered is in
\* the persisted ledger.
C6_TrueOnlyIfPersisted ==
    (last.called /\ last.ret)
    => DeliveredKeys(last) \subseteq KeysOf(load_alert_log(file))

\* C7: a scan removes no record from the persisted ledger.
C7_ScanKeepsPersistedRecords ==
    [][last'.called
       => \A n \in 1..Len(load_alert_log(file)) :
            load_alert_log(file)[n] \in
              {load_alert_log(file')[m] : m \in 1..Len(load_alert_log(file'))}]_vars

\* C8: a scan in which no send failed appends one record for every
\* detected signal whose key was not in alert_log.
C8_AppendsEveryUnseenSignal ==
    (last.called /\ AllSendsSucceeded(last)) => last.grew = last.unseen

(***************************************************************************)
(* The claims about the clock, checked under SpecClock.                    *)
(***************************************************************************)
\* C9: get_recent_alerts(hours) returns the records of alert_log whose
\* sent_at is in [now - hours, now], the one sent exactly `hours` ago
\* included, each once, the latest first, and changes no ledger.
C9_RecentWindowClosed ==
    [][result'.op = "get_recent_alerts"
       => LET log == alert_log[result'.s]
              ret == result'.ret
              inWindow(alert) ==
                  /\ now - result'.arg <= fromisoformat(alert.sent_at)
                  /\ fromisoformat(alert.sent_at) <= now
          IN  /\ \A n \in 1..Len(log) :
                   inWindow(log[n]) <=> (\E m \in 1..Len(ret) : ret[m] = log[n])
              /\ \A m \in 1..Len(ret) : \E n \in 1..Len(log) : log[n] = ret[m]
              /\ \A m, n \in 1..Len(ret) : m # n => ret[m] # ret[n]
              /\ \A m, n \in 1..Len(ret) :
                   m < n => fromisoformat(ret[m].sent_at) >= fromisoformat(ret[n].sent_at)
              /\ alert_log' = alert_log
              /\ file' = file]_vars

\* C10: when its write succeeds, clean_old_alerts(days) leaves in the file
\* the records not older than now - days, unmodified and in their order,
\* and returns how many records it removed.
C10_PruneRemovesOlderOnly ==
    [][(result'.op = "clean_old_alerts" /\ result'.saved = "ok")
       => LET before == load_alert_log(file)
              notOlder(alert) ==
                  fromisoformat(alert.timestamp) >= now - HoursPerDay * result'.arg
          IN  /\ load_alert_log(file') = SelectSeq(before, notOlder)
              /\ result'.ret = Len(before) - Len(load_alert_log(file'))]_vars

\* C11: clean_old_alerts and get_recent_alerts judge a record's age by the
\* same field: a record that get_recent_alerts(W) returns in some session is
\* still in the file after a successful clean_old_alerts with maximum age W
\* at the same instant.
C11_PruneKeepsRecentRecords ==
    [][(result'.op = "clean_old_alerts" /\ result'.saved = "ok")
       => \A s \in Sessions :
            LET recent == recent_alerts(alert_log[s], now, HoursPerDay * result'.arg)
                before == load_alert_log(file)
                after == load_alert_log(file')
            IN  \A n \in 1..Len(recent) :
                  (\E m \in 1..Len(before) : before[m] = recent[n])
                  => (\E m \in 1..Len(after) : after[m] = recent[n])]_vars

(***************************************************************************)
(* The claims about the signals, checked under SpecFlags.                  *)
(***************************************************************************)
\* the signals of a type in what detect_crossover_signals returned
SignalsOf(signals, type) == {n \in 1..Len(signals) : signals[n].type = type}

\* a cell that holds a number
Defined(v) == ~IsNaN(v)

\* C12: on a computed series of at least two bars, detect_crossover_signals
\* emits MACD_BULLISH_CROSSOVER, with the latest MACD and MACD_Signal, exactly
\* when the stored MACD_Crossover flag of the latest bar is set, and
\* MFI_BULLISH_CROSSOVER, with the latest MFI and 50, exactly when the stored
\* MFI_Crossover flag is set; get_latest_signals reports the same.
C12_SignalsMatchStoredFlags ==
    (result.op = "detect_crossover_signals" /\ Len(stock_data) >= 2)
    => LET latest == stock_data[Len(stock_data)]
           signals == result.ret
           flags == get_latest_signals(stock_data)
           macd == SignalsOf(signals, "MACD_BULLISH_CROSSOVER")
           mfi == SignalsOf(signals, "MFI_BULLISH_CROSSOVER")
       IN  /\ (macd # {}) <=> (Get(latest, "MACD_Crossover", F(0)) = F(1))
           /\ (macd # {}) <=> flags.macd_crossover
           /\ (mfi # {}) <=> (Get(latest, "MFI_Crossover", F(0)) = F(1))
           /\ (mfi # {}) <=> flags.mfi_crossover
           /\ Cardinality(macd) <= 1
           /\ Cardinality(mfi) <= 1
           /\ \A n \in macd : /\ signals[n].value = latest.MACD
                              /\ signals[n].signal_value = latest.MACD_Signal
           /\ \A n \in mfi : /\ signals[n].value = latest.MFI
                             /\ signals[n].signal_value = F(50)

C12_Witness ==
    /\ result.op = "detect_crossover_signals"
    /\ SignalsOf(result.ret, "MACD_BULLISH_CROSSOVER") # {}
    /\ SignalsOf(result.ret, "MFI_BULLISH_CROSSOVER") # {}

\* C13: detect_crossover_signals emits RSI_OVERSOLD_RECOVERY, with the latest
\* RSI and 30, exactly when the series has two bars, the RSI of the latest
\* bar and of the bar before are both numbers, the latest is above 30 and the
\* one before is not; no RSI column, no signal.
C13_RsiRecoveryIffCrossing ==
    result.op = "detect_crossover_signals"
    => LET df == stock_data
           signals == result.ret
           rsi == SignalsOf(signals, "RSI_OVERSOLD_RECOVERY")
           crossing ==
               /\ Len(df) >= 2
               /\ "RSI" \in Columns(df)
               /\ Defined(df[Len(df)].RSI)
               /\ Defined(df[Len(df) - 1].RSI)
               /\ Gt(df[Len(df)].RSI, F(30))
               /\ ~Gt(df[Len(df) - 1].RSI, F(30))
       IN  /\ (rsi # {}) <=> crossing
           /\ Cardinality(rsi) <= 1
           /\ \A n \in rsi : /\ signals[n].value = df[Len(df)].RSI
                             /\ signals[n].signal_value = F(30)

C13_Witness ==
    /\ result.op = "detect_crossover_signals"
    /\ SignalsOf(result.ret, "RSI_OVERSOLD_RECOVERY") # {}

\* C14: on every bar t of a computed series the MACD_Crossover flag is set iff
\* t is not the first bar, MACD[t] > signal[t] and MACD[t-1] <= signal[t-1],
\* all four being numbers, and the MFI_Crossover flag is set iff t is not the
\* first bar, MFI[t] > 50 and MFI[t-1] <= 50, both being numbers; a flag that
\* is not set is 0.
C14_FlagOnlyOnTheFlip ==
    \A t \in 1..Len(stock_data) :
      LET df == stock_data
      IN  /\ "MACD_Crossover" \in Columns(df)
             => /\ df[t].MACD_Crossover \in {F(0), F(1)}
                /\ (df[t].MACD_Crossover = F(1))
                   <=> /\ t >= 2
                       /\ Defined(df[t].MACD) /\ Defined(df[t].MACD_Signal)
                       /\ Defined(df[t - 1].MACD) /\ Defined(df[t - 1].MACD_Signal)
                       /\ Gt(df[t].MACD, df[t].MACD_Signal)
                       /\ ~Gt(df[t - 1].MACD, df[t - 1].MACD_Signal)
          /\ "MFI_Crossover" \in Columns(df)
             => /\ df[t].MFI_Crossover \in {F(0), F(1)}
                /\ (df[t].MFI_Crossover = F(1))
                   <=> /\ t >= 2
                       /\ Defined(df[t].MFI) /\ Defined(df[t - 1].MFI)
                       /\ Gt(df[t].MFI, F(50))
                       /\ ~Gt(df[t - 1].MFI, F(50))

\* a MACD flag whose relation persists on the next bar without the flag, and
\* an MFI flag
C14_Witness ==
    /\ "MFI_Crossover" \in Columns(stock_data)
    /\ \E t \in 1..(Len(stock_data) - 1) :
         /\ stock_data[t].MACD_Crossover = F(1)
         /\ Gt(stock_data[t + 1].MACD, stock_data[t + 1].MACD_Signal)
         /\ stock_data[t + 1].MACD_Crossover = F(0)
    /\ \E t \in 1..Len(stock_data) : stock_data[t].MFI_Crossover = F(1)

(***************************************************************************)
(* The claims about the indicators, checked under SpecIndicators.          *)
(***************************************************************************)
\* get_stock_data_with_indicators has just computed the indicators
Computed == result.op = "get_stock_data_with_indicators" /\ result.saved # "none"

Indicators ==
    {"MACD", "MACD_Signal", "MACD_Histogram", "MACD_Crossover", "RSI", "MFI",
     "MFI_Crossover", "Volume_MA_Short", "Volume_MA_Long", "Volume_Surge"}

InRange(v) == Le(F(0), v) /\ Le(v, F(100))

\* every RSI and MFI cell that is a number lies in [0, 100]
RsiMfiInRange(df) ==
    \A t \in 1..Len(df) :
      /\ Defined(df[t].RSI) => InRange(df[t].RSI)
      /\ Defined(df[t].MFI) => InRange(df[t].MFI)

\* C15 as stated: on a series with close > 0 and volume >= 0 (high and low
\* any finite number) every RSI and MFI value that is defined lies in
\* [0, 100].
C15_RsiMfiInRange ==
    (/\ Computed
     /\ OHLCV \subseteq Columns(result.arg)
     /\ \A t \in 1..Len(result.arg) :
          Gt(result.arg[t].Close, F(0)) /\ Le(F(0), result.arg[t].Volume))
    => RsiMfiInRange(result.ret)

\* C15 as amended: the same on a series whose high and low are not negative
\* either.
C15_RsiMfiInRangeOfPositivePrices ==
    (/\ Computed
     /\ OHLCV \subseteq Columns(result.arg)
     /\ \A t \in 1..Len(result.arg) :
          /\ Gt(result.arg[t].Close, F(0))
          /\ Le(F(0), result.arg[t].High)
          /\ Le(F(0), result.arg[t].Low)
          /\ Le(F(0), result.arg[t].Volume))
    => RsiMfiInRange(result.ret)

\* positive prices with an MFI and an RSI strictly inside the range
C15_Witness ==
    /\ Computed
    /\ OHLCV \subseteq Columns(result.arg)
    /\ \A t \in 1..Len(result.arg) : Le(F(0), result.arg[t].Low)
    /\ \E t \in 1..Len(result.ret) :
         /\ Gt(result.ret[t].MFI, F(0)) /\ Lt(result.ret[t].MFI, F(100))
         /\ Gt(result.ret[t].RSI, F(0)) /\ Lt(result.ret[t].RSI, F(100))

\* C16: over a full window, RSI is exactly 100 when the average loss is 0 and
\* the average gain is positive, is not a number when both are 0, and is a
\* number strictly between 0 and 100 when both are positive.
C16_RsiEdgeCases ==
    (Computed /\ "Close" \in Columns(result.arg))
    => \A t \in RSI_PERIOD..Len(result.ret) :
         LET close == Col(result.arg, "Close")
             gain == avg_gain(close, t)
             loss == avg_loss(close, t)
             rsi == result.ret[t].RSI
         IN  /\ (loss = F(0) /\ Gt(gain, F(0))) => rsi = F(100)
             /\ (loss = F(0) /\ gain = F(0)) => IsNaN(rsi)
             /\ (Gt(loss, F(0)) /\ Gt(gain, F(0)))
                => (Defined(rsi) /\ Gt(rsi, F(0)) /\ Lt(rsi, F(100)))

\* one series with a window of gains only and a window of gains and losses
C16_Witness ==
    /\ Computed
    /\ "Close" \in Columns(result.arg)
    /\ \E t \in RSI_PERIOD..Len(result.ret) :
         /\ avg_loss(Col(result.arg, "Close"), t) = F(0)
         /\ result.ret[t].RSI = F(100)
    /\ \E t \in RSI_PERIOD..Len(result.ret) :
         /\ Gt(avg_loss(Col(result.arg, "Close"), t), F(0))
         /\ Gt(result.ret[t].RSI, F(0))
         /\ Lt(result.ret[t].RSI, F(100))

\* C17: on a series with all its columns calculate_all_indicators returns as
\* many rows, with the same timestamps and the same OHLCV cells in the same
\* order, in which RSI is not a number on the first RSI_PERIOD - 1 bars, MFI
\* on the first MFI_PERIOD bars, and a volume average until its window is
\* full (so none of these cells is 0).
C17_AlignedWithWarmUp ==
    (Computed /\ OHLCV \subseteq Columns(result.arg))
    => LET df == result.arg
           out == result.ret
       IN  /\ Len(out) = Len(df)
           /\ \A t \in 1..Len(df) :
                /\ out[t].ts = df[t].ts
                /\ \A c \in OHLCV : out[t][c] = df[t][c]
                /\ t <= RSI_PERIOD - 1 => IsNaN(out[t].RSI)
                /\ t <= MFI_PERIOD => IsNaN(out[t].MFI)
                /\ t < VOLUME_MA_SHORT => IsNaN(out[t].Volume_MA_Short)
                /\ t < VOLUME_MA_LONG => IsNaN(out[t].Volume_MA_Long)

\* a series long enough for every indicator to have a value after its warm-up
C17_Witness ==
    /\ Computed
    /\ OHLCV \subseteq Columns(result.arg)
    /\ Len(result.ret) > MFI_PERIOD
    /\ Defined(result.ret[RSI_PERIOD].RSI)
    /\ Defined(result.ret[MFI_PERIOD + 1].MFI)
    /\ Defined(result.ret[VOLUME_MA_LONG].Volume_MA_Long)

\* C18: when a column of OHLCV is absent, calculate_all_indicators fails: it
\* does not return a frame with some indicators and without the others, and
\* no such frame is stored.
C18_MissingColumnFails ==
    (Computed /\ ~(OHLCV \subseteq Columns(result.arg)))
    => /\ ~(/\ Columns(result.ret) \cap Indicators # {}
            /\ ~(Indicators \subseteq Columns(result.ret)))
       /\ ~(/\ Columns(stock_data) \cap Indicators # {}
            /\ ~(Indicators \subseteq Columns(stock_data)))

(***************************************************************************)
(* The claims about the merger, checked under SpecMerge.                   *)
(***************************************************************************)
\* a call that fetched hourly bars and aggregated them
Resampled ==
    /\ result.op \in {"download_historical_data", "update_current_data"}
    /\ result.fetched
    /\ result.raw # <<>>

\* C19: the aggregation outputs a 4-hour bar only for a bucket all of whose
\* BarHours hourly bars were fetched; a bucket with some of them and not all
\* gives no bar.
C19_OnlyFullBucketsAggregated ==
    Resampled
    => \A n \in 1..Len(result.recent_4h) :
         Len(SubBars(result.raw, result.recent_4h[n].ts)) = BarHours

\* C20: after a merge by update_current_data, an incoming aggregated bar
\* with the timestamp of a bar of the stored series has replaced it: the
\* resulting series holds the incoming bar's OHLCV at that timestamp.
C20_IncomingBarReplacesStored ==
    (result.op = "update_current_data" /\ result.saved = "ok")
    => \A n \in 1..Len(result.recent_4h), m \in 1..Len(result.arg) :
         result.recent_4h[n].ts = result.arg[m].ts
         => \E k \in 1..Len(stock_data) :
              /\ stock_data[k].ts = result.recent_4h[n].ts
              /\ \A c \in OHLCV : stock_data[k][c] = result.recent_4h[n][c]

\* the timestamps of a series and the OHLCV at each
Bars(df) == [t \in 1..Len(df) |-> [c \in OHLCV \cup {"ts"} |-> df[t][c]]]

\* update_current_data has just merged and stored a batch of incoming bars
Merged == result.op = "update_current_data" /\ result.saved = "ok"

\* C21: merging the batch of incoming bars that update_current_data has just
\* merged into the stored series once more gives the series that is stored:
\* the same timestamps with the same OHLCV; and so does merging twice any
\* batch the bar source can give, older than the stored bars or newer, into
\* any stored series.
C21_MergeIdempotent ==
    /\ Merged => Bars(merge(stock_data, result.recent_4h)) = Bars(stock_data)
    /\ stock_data # <<>>
       => \A at \in {h \in StartHour..EndHour : h % BarHours = 0} :
            \A raw \in Fetches(at) :
              LET once == merge(stock_data, resample_4h(raw))
              IN  Bars(merge(once, resample_4h(raw))) = Bars(once)

\* a batch with a bar at a stored timestamp and a bar after the latest one
C21_Witness ==
    /\ Merged
    /\ \E n \in 1..Len(result.recent_4h), m \in 1..Len(result.arg) :
         result.recent_4h[n].ts = result.arg[m].ts
    /\ Len(stock_data) > Len(result.arg)

\* timestamps strictly increasing, so unique
StrictlyIncreasing(df) == \A t \in 1..(Len(df) - 1) : df[t].ts < df[t + 1].ts

\* C22: whatever download_historical_data and update_current_data did, the
\* stored series has strictly increasing timestamps; a call that stored
\* nothing left the series as it was.
C22_StoredTimestampsIncrease ==
    /\ StrictlyIncreasing(stock_data)
    /\ (/\ result.op \in {"download_historical_data", "update_current_data"}
        /\ result.saved # "ok")
       => stock_data = result.arg

\* a series that two merges have extended
C22_Witness ==
    /\ Merged
    /\ Len(result.arg) >= 3
    /\ Len(stock_data) > Len(result.arg)

\* C23: update_current_data on a stored series whose latest bar is younger
\* than BarHours does not call the bar source, leaves the stored series and
\* last_update as they are and returns True; on a latest bar that is
\* BarHours old or older it calls the bar source.
C23_FreshnessGate ==
    [][(result'.op = "update_current_data" /\ stock_data # <<>>)
       => IF now - stock_data[Len(stock_data)].ts < BarHours
          THEN /\ ~result'.fetched
               /\ result'.ret = TRUE
               /\ UNCHANGED <<stock_data, last_update>>
          ELSE result'.fetched]_vars

(***************************************************************************)
(* The claims about the scan, checked under SpecScan.                      *)
(***************************************************************************)
\* a scan that was not skipped
Scanned == result.op = "scan_for_signals" /\ result.ret

\* C24: a scan that is performed submits the stored series to
\* check_and_send_alerts whenever detect_crossover_signals finds a signal on
\* its latest bar, an RSI_OVERSOLD_RECOVERY alone included.
C24_ScanSubmitsEverySignal ==
    (Scanned /\ detect_crossover_signals(stock_data) # <<>>)
    => /\ last.called
       /\ last.df = stock_data
       /\ last.signals = Len(detect_crossover_signals(stock_data))

\* C26: scan_for_signals skips the scan exactly when the session has scanned
\* before and less than ScanThrottle seconds have passed since, however long
\* ago that is; a scan that is performed sets last_scan_time to now.
C26_SkipsOnlyWithinThrottle ==
    [][\A s \in Sessions :
         (result'.op = "scan_for_signals" /\ result'.s = s)
         => /\ ~result'.ret
               <=> /\ last_scan_time[s] # <<>>
                   /\ datetime_now - last_scan_time[s][1] < ScanThrottle
            /\ result'.ret => last_scan_time'[s] = <<datetime_now>>]_vars

(***************************************************************************)
(* The claim about the prune and the sessions, checked under Spec.         *)
(***************************************************************************)
\* C25: a record that clean_old_alerts has just removed from the file, and
\* that a session constructed before the prune holds in its alert_log, is not
\* in the file after the check_and_send_alerts call of that session that
\* follows.
C25_PrunedStaysPruned ==
    [][(/\ result.op = "clean_old_alerts"
        /\ result.saved = "ok"
        /\ last'.called)
       => \A n \in 1..Len(result.removed) :
            (\E m \in 1..Len(alert_log[last'.s]) :
               alert_log[last'.s][m] = result.removed[n])
            => result.removed[n] \notin Persisted']_vars

====
